---- MODULE Spec2Model ----
(***************************************************************************)
(* Simulation core of asteroids_clone (src/src/main.rs, src/src/physics.rs) *)
(* as a state machine: the five Update systems of one frame, the deferred  *)
(* command queues they fill, the CollisionEvent messages between them, and  *)
(* the frame boundary that applies the commands.                            *)
(*                                                                          *)
(* Numbers.  Every f32 of the code (positions in px, velocities in px/s,   *)
(* angular velocities in rad/s, drag coefficients, radii, delta_secs) is    *)
(* held as the pair << m, e >> of its value m * 2^e: |m| < 2^24, a normal   *)
(* value has |m| >= 2^23, a subnormal value and zero have e = -149.  Each   *)
(* product, sum and difference of the code is one operation of the model,   *)
(* rounded to the nearest f32 with ties to the even significand, as IEEE    *)
(* 754 arithmetic does; the comparison with a square root is decided        *)
(* exactly.  The sign of a zero is not kept (no operation of the program    *)
(* tells -0.0 from 0.0), and no value of the model comes near 2^128, where  *)
(* the code would yield an infinity.                                        *)
(*                                                                          *)
(* Time.  dt, the timer and the stopwatch count sixteenths of a second      *)
(* (62.5 ms); delta_secs is that count as an f32.                           *)
(*                                                                          *)
(* Rotation.  A Transform's rotation is the sequence of the angles that     *)
(* rotate_z has turned it by since Transform::from_xyz: the quaternion of   *)
(* the code is the product of Quat::from_rotation_z of these angles.  The   *)
(* quaternion is not evaluated, because that needs the sine and cosine of   *)
(* libm, so rotate_z is given only where its effect is known without them:  *)
(* the angle 0.0 leaves the quaternion as it is, and an angle of magnitude  *)
(* from 2^-10 up to 2 changes it (a smaller angle can be lost in the        *)
(* rounding of the product; the model never turns by one).  Two different   *)
(* sequences can stand for the same quaternion; no property compares the    *)
(* rotations of different histories.  to_euler, sin and cos are given for   *)
(* the identity rotation only, where they are exact (0.0, 0.0 and 1.0); the *)
(* inputs below never turn an entity whose heading is read (the ship is not *)
(* steered, asteroids are spawned with heading 0.0), so no other heading is *)
(* ever asked for.                                                          *)
(*                                                                          *)
(* Score.  GameStats.score is a u32, held as << high, low >> halves of 16   *)
(* bits: the value high * 65536 + low.  An addition that reaches 2^32 wraps *)
(* in a build without overflow checks and panics in a build with them; a    *)
(* run of handle_collisions is of either build, and a panic ends the        *)
(* program.                                                                 *)
(***************************************************************************)
EXTENDS Integers, Sequences, FiniteSets, Bags, TLC

VARIABLES
    frame,        \* number of the running frame (app.run loop)
    dt,           \* Res<Time>: delta of the running frame
    pressed,      \* ButtonInput<KeyCode>: keys held in the running frame
    just_pressed, \* ButtonInput<KeyCode>: keys that went down this frame
    ran,          \* Update systems that have already run in this frame
    ents,         \* the world: live entity id -> its components
    nextId,       \* next fresh entity id
    game_stats,   \* Res<GameStats>: score, stopwatch, roid_timer, roid_chance
    messages,     \* Messages<CollisionEvent>: the buffered events, each with the
                  \* frame that wrote it and whether handle_collisions' reader
                  \* is past it; a bag, for the order of a batch is the
                  \* HashMap's iteration order
    cmds,         \* Commands queued by this frame's systems, not yet applied
    panicked      \* whether a system has panicked: the program has ended

vars == <<frame, dt, pressed, just_pressed, ran, ents, nextId, game_stats, messages, cmds,
          panicked>>

----------------------------------------------------------------------------
(* Bounds of the model *)

\* frames explored from startup
MaxFrames == 5

\* collidable bodies in the worlds detect_collisions is applied to on its own
MaxBodies == 3

----------------------------------------------------------------------------
(* f32 arithmetic *)

Abs(a) == IF a >= 0 THEN a ELSE -a

Max(a, b) == IF a >= b THEN a ELSE b

\* the number of significand bits of an f32
Precision == 24

\* the exponent of the smallest subnormal f32, 2^-149
MinExp == -149

\* significands are below Radix, and the limbs of a double-length magnitude
\* hi * Radix + lo are below it too
Radix == 2^Precision

\* the halves of a significand are below HalfRadix
HalfRadix == 2^12

\* the smallest significand of a normal f32
Hidden == 2^(Precision - 1)

\* the powers of two that fit an integer of the model
Pow2 == [ k \in 0 .. 30 |-> 2^k ]

\* the number of bits of n, for 0 <= n < 64
Bits6 == [ n \in 0 .. 63 |-> Cardinality({ k \in 0 .. 5 : n >= Pow2[k] }) ]

\* the number of bits of n, for 0 <= n < 2^30
bit_length(n) ==
    IF n < Pow2[6] THEN Bits6[n]
    ELSE IF n < Pow2[12] THEN 6 + Bits6[n \div Pow2[6]]
    ELSE IF n < Pow2[18] THEN 12 + Bits6[n \div Pow2[12]]
    ELSE IF n < Pow2[24] THEN 18 + Bits6[n \div Pow2[18]]
    ELSE 24 + Bits6[n \div Pow2[24]]

\* the f32 0.0
Zero == << 0, MinExp >>

\* the f32 of magnitude q * 2^t for a rounded significand q <= Radix at the
\* exponent t the rounding was made at
packed(neg, q, t) ==
    IF q = 0 THEN Zero
    ELSE IF q = Radix THEN << (IF neg THEN -Hidden ELSE Hidden), t + 1 >>
    ELSE << (IF neg THEN -q ELSE q), t >>

\* the f32 of the significand q at the exponent t, rounded to nearest, ties
\* to even, for the bits dropped below q: `rest` is negative, 0 or positive
\* as they are less than, equal to or more than half a unit of q
rounded(neg, q, rest, t) ==
    packed(neg, IF rest > 0 \/ (rest = 0 /\ q % 2 = 1) THEN q + 1 ELSE q, t)

\* the f32 nearest to (hi * Radix + lo) * 2^e of len bits, at the exponent
\* t = e + s: the s lowest bits are dropped
round_shift(neg, hi, lo, len, t, s) ==
    IF len = 0 \/ s > len THEN Zero
    ELSE IF s <= 0 THEN packed(neg, lo * Pow2[-s], t)
    ELSE IF s <= Precision
    THEN rounded(neg, (hi * Pow2[Precision - s]) + (lo \div Pow2[s]),
                 (2 * (lo % Pow2[s])) - Pow2[s], t)
    ELSE rounded(neg, hi \div Pow2[s - Precision],
                 IF hi % Pow2[s - Precision] # Pow2[s - Precision - 1]
                 THEN (hi % Pow2[s - Precision]) - Pow2[s - Precision - 1]
                 ELSE IF lo > 0 THEN 1 ELSE 0,
                 t)

\* the f32 nearest to (hi * Radix + lo) * 2^e of len bits, at the exponent t
round_at(neg, hi, lo, e, len, t) == round_shift(neg, hi, lo, len, t, t - e)

\* the f32 nearest to (hi * Radix + lo) * 2^e of len bits: the significand
\* keeps the 24 leading bits, or the bits down to 2^MinExp if these are fewer
round_len(neg, hi, lo, e, len) ==
    round_at(neg, hi, lo, e, len, Max(e + len - Precision, MinExp))

\* the f32 nearest to (hi * Radix + lo) * 2^e, of the sign neg, for limbs
\* hi < 2^30 and lo < Radix
round_f32(neg, hi, lo, e) ==
    round_len(neg, hi, lo, e, IF hi > 0 THEN Precision + bit_length(hi) ELSE bit_length(lo))

\* the f32 nearest to n * 2^e, for an integer n of magnitude below 2^30
f32_of(n, e) == round_f32(n < 0, Abs(n) \div Radix, Abs(n) % Radix, e)

\* the f32 1.0
One == f32_of(1, 0)

\* -a
f32_neg(a) == << -a[1], a[2] >>

\* the f32 nearest to the product of the magnitudes a1 * HalfRadix + a0 and
\* b1 * HalfRadix + b0, times 2^e, of the sign neg
mul_halves(neg, a1, a0, b1, b0, e) ==
    round_f32(neg,
              (a1 * b1) + (((a1 * b0) + (a0 * b1)) \div HalfRadix)
                + ((((((a1 * b0) + (a0 * b1)) % HalfRadix) * HalfRadix) + (a0 * b0)) \div Radix),
              (((((a1 * b0) + (a0 * b1)) % HalfRadix) * HalfRadix) + (a0 * b0)) % Radix,
              e)

\* a * b
f32_mul(a, b) ==
    IF a[1] = 0 \/ b[1] = 0 THEN Zero
    ELSE mul_halves((a[1] < 0) # (b[1] < 0),
                    Abs(a[1]) \div HalfRadix, Abs(a[1]) % HalfRadix,
                    Abs(b[1]) \div HalfRadix, Abs(b[1]) % HalfRadix,
                    a[2] + b[2])

\* the f32 nearest to (ahi * Radix + lo) * 2^e, of the sign neg, for a low
\* limb -Radix < lo < 2 * Radix
add_limbs(neg, ahi, lo, e) == round_f32(neg, ahi + (lo \div Radix), lo % Radix, e)

\* a + b for the exponent of a not below that of b by d: a, shifted to the
\* exponent of b, has two limbs; an f32 more than 25 binary places below
\* a normal a is less than a quarter of the spacing of the f32 around a and
\* leaves a as it is
add_aligned(a, b, d) ==
    IF d > Precision + 1 THEN a
    ELSE IF d = 0 THEN add_limbs(a[1] + b[1] < 0, 0, Abs(a[1] + b[1]), b[2])
    ELSE add_limbs(a[1] < 0,
                   IF d <= Precision THEN Abs(a[1]) \div Pow2[Precision - d]
                   ELSE 2 * Abs(a[1]),
                   (IF d <= Precision THEN (Abs(a[1]) % Pow2[Precision - d]) * Pow2[d] ELSE 0)
                     + (IF (a[1] < 0) = (b[1] < 0) THEN Abs(b[1]) ELSE -Abs(b[1])),
                   b[2])

\* a + b
f32_add(a, b) ==
    IF b[1] = 0 THEN a
    ELSE IF a[1] = 0 THEN b
    ELSE add_aligned(IF a[2] >= b[2] THEN a ELSE b, IF a[2] >= b[2] THEN b ELSE a,
                     Abs(a[2] - b[2]))

\* a - b
f32_sub(a, b) == f32_add(a, f32_neg(b))

\* the limbs of a square are below Limb
Limb == 2^28

\* the halves of a number to square are below HalfLimb
HalfLimb == 2^14

\* the square of n, for 0 <= n < Limb, as << high, low >>: high * Limb + low
square(n) ==
    LET n1  == n \div HalfLimb
        n0  == n % HalfLimb
        mid == 2 * n1 * n0
        low == ((mid % HalfLimb) * HalfLimb) + (n0 * n0)
    IN  << (n1 * n1) + (mid \div HalfLimb) + (low \div Limb), low % Limb >>

\* the number of bits of a square
square_length(q) == IF q[1] > 0 THEN 28 + bit_length(q[1]) ELSE bit_length(q[2])

\* s < M2 * 2^(2 * E), for an f32 s > 0 and the square M2 of M, with k the
\* exponent of s less 2 * E: by their lengths, and limb by limb when these
\* are the same
below_square(s, M2, k) ==
    IF bit_length(s[1]) + k # square_length(M2)
    THEN bit_length(s[1]) + k < square_length(M2)
    ELSE IF k < 0 THEN s[1] < M2[2] * Pow2[-k]
    ELSE IF k <= 28
    THEN \/ s[1] \div Pow2[28 - k] < M2[1]
         \/ (s[1] \div Pow2[28 - k] = M2[1] /\ (s[1] % Pow2[28 - k]) * Pow2[k] < M2[2])
    ELSE \/ s[1] * Pow2[k - 28] < M2[1]
         \/ (s[1] * Pow2[k - 28] = M2[1] /\ 0 < M2[2])

\* s < (M * 2^E)^2 for an f32 s > 0
below_midpoint(s, M, E) == below_square(s, square(M), s[2] - (2 * E))

\* s.sqrt() < r, for s >= 0.  The square root of IEEE 754 is the f32 nearest
\* to the root, so it is below r exactly when the root is below the midpoint
\* of r and the f32 next below r (the root of an f32 is never that
\* midpoint, which has 25 significant bits): when s is below the square of
\* the midpoint, which is (4 * r[1] - 1) * 2^(r[2] - 2) below a power of two
\* and (2 * r[1] - 1) * 2^(r[2] - 1) elsewhere.
sqrt_lt(s, r) ==
    IF r[1] <= 0 THEN FALSE
    ELSE IF s[1] = 0 THEN TRUE
    ELSE IF r[1] = Hidden /\ r[2] > MinExp
    THEN below_midpoint(s, (4 * r[1]) - 1, r[2] - 2)
    ELSE below_midpoint(s, (2 * r[1]) - 1, r[2] - 1)

----------------------------------------------------------------------------
(* u32 arithmetic *)

\* the halves of a u32 are below Half32
Half32 == 2^16

\* the u32 of the value n, for 0 <= n < 2^31
u32_of(n) == << n \div Half32, n % Half32 >>

\* whether a + n, for a u32 a and 0 <= n < 2^15, is 2^32 or more
overflows(a, n) == a[1] = Half32 - 1 /\ a[2] + n >= Half32

\* a + n for a u32 a and 0 <= n < 2^15, modulo 2^32
wrapping_add(a, n) ==
    LET low == a[2] + n
    IN  << (a[1] + (low \div Half32)) % Half32, low % Half32 >>

----------------------------------------------------------------------------
(* Program constants *)

\* Timer::new(Duration::from_millis(500), Repeating), in sixteenths of a second
RoidPeriod == 8
\* GameStats::default roid_chance
DefaultRoidChance == 10
\* game_stats.score += 10
ScorePerRoid == 10
\* CircleCollider { radius: 50.0 } of the ship and of asteroids
BigRadius == f32_of(50, 0)
\* let size = 15.0; CircleCollider { radius: size } of a laser shot
LaserRadius == f32_of(15, 0)
\* Velocity::default linear_drag / angular_drag 0.5
DefaultDrag == f32_of(1, -1)
\* PlayerShip::default linear_accel 50.0
LinearAccel == f32_of(50, 0)
\* PlayerShip::default angular_accel 2.0 * PI, PI being the f32 13176795 * 2^-22
AngularAccel == f32_of(13176795, -21)
\* muzzle speed 400.0
LaserSpeed == f32_of(400, 0)

Systems == {"apply_velocity", "detect_collisions", "game_tick", "control_ship", "handle_collisions"}

Keys == {"KeyW", "KeyA", "KeyD", "Space"}

\* Vec2::ZERO, and the x and y of Vec3::ZERO
Vec2_ZERO == << Zero, Zero >>

----------------------------------------------------------------------------
(* Inputs *)

\* time.delta() of a frame: none, or the 250 ms that Time<Virtual> clamps a
\* frame's delta to
Deltas == {0, 4}

\* key states the input source reports for a frame: fire up or held down
KeySets == {{}, {"Space"}}

\* rand.random_range(0..100): the ends of the range and the values on
\* either side of the default roid_chance
Rolls == {0, 9, 10, 99}

\* (pos, rotation, speed, angvel) drawn by game_tick for a new asteroid, pos
\* in [-550, 55) px, rotation in [-PI, PI), speed in [-200, 200) px/s, angvel
\* in [-PI, PI) rad/s: an asteroid at rest on the ship, and one 54 px above
\* the ship that drifts down at 8 px/s and spins at 1 rad/s
RoidSpawns ==
    { [pos |-> Vec2_ZERO, rotation |-> Zero, speed |-> Zero, angvel |-> Zero],
      [pos |-> << Zero, f32_of(54, 0) >>, rotation |-> Zero,
       speed |-> f32_of(-8, 0), angvel |-> One] }

----------------------------------------------------------------------------
(* Transforms *)

\* the rotation of Transform::from_xyz
IDENTITY == <<>>

\* whether 2^-10 <= |angle| < 2.  Quat::from_rotation_z of such an angle
\* turns a unit quaternion by 2^-11 or more, which the rounding of the
\* product, some 2^-23, cannot undo
turns(angle) ==
    /\ Abs(angle[1]) >= Hidden
    /\ angle[2] + Precision - 1 \in -10 .. 0

\* tsf.rotate_z(angle), for the rotation rot of tsf: Quat::from_rotation_z
\* of 0.0 is the identity quaternion, which leaves rot as it is; the angles
\* in between, which rounding can leave without effect, are not given
rotate_z(rot, angle) ==
    CASE angle = Zero -> rot
      [] turns(angle) -> Append(rot, angle)

\* rotation.to_euler(EulerRot::XYZ).2, for the identity rotation
to_euler_z(rot) == CASE rot = IDENTITY -> Zero

\* f32::sin, at 0.0
sin(a) == CASE a = Zero -> Zero

\* f32::cos, at 0.0
cos(a) == CASE a = Zero -> One

\* Vec2::new(-euler_rot.sin(), euler_rot.cos()) * len
Forward(euler_rot, len) ==
    << f32_mul(f32_neg(sin(euler_rot)), len), f32_mul(cos(euler_rot), len) >>

----------------------------------------------------------------------------
(* Entities and their components *)

\* cmds.spawn((Camera2d, GameCleanup)); an entity without a Velocity or a
\* CircleCollider holds zeros in their places
camera_bundle ==
    [ tag |-> "Camera2d", cleanup |-> TRUE,
      translation |-> Vec2_ZERO, rotation |-> IDENTITY,
      has_velocity |-> FALSE, linear |-> Vec2_ZERO, linear_drag |-> Vec2_ZERO,
      angular |-> Zero, angular_drag |-> Zero,
      has_collider |-> FALSE, radius |-> Zero ]

\* cmds.spawn((Velocity::default(), GameCleanup, PlayerShip::default(),
\*             Sprite, CircleCollider { radius: 50.0 }))
ship_bundle ==
    [ tag |-> "PlayerShip", cleanup |-> TRUE,
      translation |-> Vec2_ZERO, rotation |-> IDENTITY,
      has_velocity |-> TRUE, linear |-> Vec2_ZERO,
      linear_drag |-> << DefaultDrag, DefaultDrag >>,
      angular |-> Zero, angular_drag |-> DefaultDrag,
      has_collider |-> TRUE, radius |-> BigRadius ]

\* the bundle spawn_laser_shot spawns for In((loc, forward, init_vel))
spawn_laser_shot(p) ==
    LET rotation  == rotate_z(IDENTITY, p.forward)
        euler_rot == to_euler_z(rotation)
        velocity  == Forward(euler_rot, LaserSpeed)
    IN  [ tag |-> "LaserShot", cleanup |-> TRUE,
          translation |-> p.loc, rotation |-> rotation,
          has_velocity |-> TRUE,
          linear |-> << f32_add(velocity[1], p.init_vel[1]),
                        f32_add(velocity[2], p.init_vel[2]) >>,
          linear_drag |-> Vec2_ZERO, angular |-> Zero, angular_drag |-> Zero,
          has_collider |-> TRUE, radius |-> LaserRadius ]

\* the bundle spawn_asteroid spawns for In((location, heading, speed, angvel))
spawn_asteroid(p) ==
    LET rotation  == rotate_z(IDENTITY, p.rotation)
        euler_rot == to_euler_z(rotation)
        velocity  == Forward(euler_rot, p.speed)
    IN  [ tag |-> "Asteroid", cleanup |-> TRUE,
          translation |-> p.pos, rotation |-> rotation,
          has_velocity |-> TRUE,
          linear |-> velocity, linear_drag |-> Vec2_ZERO,
          angular |-> p.angvel, angular_drag |-> Zero,
          has_collider |-> TRUE, radius |-> BigRadius ]

\* the entities setup_scene spawns, in spawn order
setup_scene == << camera_bundle, ship_bundle >>

\* Query<Entity, With<LaserShot>>::get(e).is_ok()
is_laser(world, e) == e \in DOMAIN world /\ world[e].tag = "LaserShot"

\* Query<Entity, With<Asteroid>>::contains(e)
is_asteroid(world, e) == e \in DOMAIN world /\ world[e].tag = "Asteroid"

\* the entities matched by Query<Entity, With<PlayerShip>>
ships(world) == { e \in DOMAIN world : world[e].tag = "PlayerShip" }

\* the entities matched by Query<Entity, With<GameCleanup>>
cleanup_ents(world) == { e \in DOMAIN world : world[e].cleanup }

\* (faulty variant of physical: the query does not ask for a CircleCollider)
physical_any(world) == DOMAIN world

\* the entities matched by Query<(&Transform, &CircleCollider, Entity)>
physical(world) == { e \in DOMAIN world : world[e].has_collider }

\* Single<..., With<PlayerShip>> is valid: exactly one ship, else the
\* system is skipped for the frame
single_ship(world) == Cardinality(ships(world)) = 1

the_ship(world) == CHOOSE e \in ships(world) : TRUE

\* all orders in which a query may yield the set S
RECURSIVE Orders(_)
Orders(S) ==
    IF S = {} THEN { <<>> }
    ELSE UNION { { <<x>> \o o : o \in Orders(S \ {x}) } : x \in S }

----------------------------------------------------------------------------
(* physics.rs *)

\* time.delta_secs() for a delta of d sixteenths of a second
delta_secs(d) == f32_of(d, -4)

\* 1.0 - (drag * time.delta_secs())
drag_factor(drag, d) == f32_sub(One, f32_mul(drag, delta_secs(d)))

\* (faulty variant of apply_drag: drag is taken off the velocity, v -= drag * dt)
apply_drag_subtracts(v, drag, d) == f32_sub(v, f32_mul(drag, delta_secs(d)))

\* (faulty variant of apply_drag: the sign of the drag term is wrong)
apply_drag_grows(v, drag, d) == f32_mul(v, f32_add(One, f32_mul(drag, delta_secs(d))))

\* v *= 1.0 - (drag * time.delta_secs()), for one component v of a velocity
apply_drag(v, drag, d) == f32_mul(v, drag_factor(drag, d))

\* (faulty variant of integrate: the translation gains the velocity, not
\* the velocity times delta_secs)
integrate_without_dt(b, d) ==
    LET vx == apply_drag(b.linear[1], b.linear_drag[1], d)
        vy == apply_drag(b.linear[2], b.linear_drag[2], d)
        va == apply_drag(b.angular, b.angular_drag, d)
    IN  [ b EXCEPT !.linear = << vx, vy >>,
                   !.angular = va,
                   !.translation = << f32_add(@[1], vx), f32_add(@[2], vy) >>,
                   !.rotation = rotate_z(@, f32_mul(va, delta_secs(d))) ]

\* the body of apply_velocity's loop, for one (Transform, Velocity): each
\* velocity component is scaled by its drag factor, the translation gains
\* the linear velocity times delta_secs, and the transform is turned by the
\* angular velocity times delta_secs
integrate(b, d) ==
    LET vx == apply_drag(b.linear[1], b.linear_drag[1], d)
        vy == apply_drag(b.linear[2], b.linear_drag[2], d)
        va == apply_drag(b.angular, b.angular_drag, d)
    IN  [ b EXCEPT !.linear = << vx, vy >>,
                   !.angular = va,
                   !.translation = << f32_add(@[1], f32_mul(vx, delta_secs(d))),
                                      f32_add(@[2], f32_mul(vy, delta_secs(d))) >>,
                   !.rotation = rotate_z(@, f32_mul(va, delta_secs(d))) ]

\* the body after apply_velocity has run once for each delta of ds, in order
RECURSIVE integrate_seq(_, _)
integrate_seq(b, ds) ==
    IF ds = <<>> THEN b ELSE integrate_seq(integrate(b, Head(ds)), Tail(ds))

\* apply_velocity over every entity of Query<(&mut Transform, &mut Velocity)>
apply_velocity_world(world, d) ==
    [ e \in DOMAIN world |-> IF world[e].has_velocity THEN integrate(world[e], d) ELSE world[e] ]

\* p.distance(q) < r for the translations p and q, whose z is 0.0:
\* (p - q).length() < r, the length being (x * x + y * y + z * z).sqrt()
distance_lt(p, q, r) ==
    LET x == f32_sub(p[1], q[1])
        y == f32_sub(p[2], q[2])
        z == f32_sub(Zero, Zero)
    IN  sqrt_lt(f32_add(f32_add(f32_mul(x, x), f32_mul(y, y)), f32_mul(z, z)), r)

\* (faulty variant of same_entity: the self test is missing)
never_same_entity(entity, ent_b) == FALSE

\* entity == ent_b  ("Don't collide with self")
same_entity(entity, ent_b) == entity = ent_b

\* (faulty variant of hit: the threshold is the sum of the two radii)
hit_sum_of_radii(world, entity, ent_b) ==
    distance_lt(world[entity].translation, world[ent_b].translation,
                f32_add(world[entity].radius, world[ent_b].radius))

\* (faulty variant of hit: the threshold is the radius of the second entity)
hit_other_radius(world, entity, ent_b) ==
    distance_lt(world[entity].translation, world[ent_b].translation, world[ent_b].radius)

\* tsf.translation.distance(tsf_b.translation) < collider.radius, the hit
\* test of the ordered pair (entity, ent_b)
hit(world, entity, ent_b) ==
    distance_lt(world[entity].translation, world[ent_b].translation, world[entity].radius)

Contains(s, x) == \E i \in 1 .. Len(s) : s[i] = x

\* (faulty variant of already_reported: the reverse pair is never looked up)
never_reported(collisions, ent_b, entity) == FALSE

\* (faulty variant of already_reported: any entry of ent_b counts, whether or
\* not its list holds entity)
reported_if_seen(collisions, ent_b, entity) == ent_b \in DOMAIN collisions

\* collisions.get(&ent_b) is Some(list) and list.contains(&entity)
already_reported(collisions, ent_b, entity) ==
    ent_b \in DOMAIN collisions /\ Contains(collisions[ent_b], entity)

\* the inner loop of detect_collisions for `entity`, from position j of the query
RECURSIVE inner_loop(_, _, _, _, _)
inner_loop(world, order, entity, collisions, j) ==
    IF j > Len(order) THEN collisions
    ELSE LET ent_b == order[j] IN
         IF same_entity(entity, ent_b)
         THEN inner_loop(world, order, entity, collisions, j + 1)
         ELSE IF hit(world, entity, ent_b)
              THEN IF already_reported(collisions, ent_b, entity)
                   THEN inner_loop(world, order, entity, collisions, j + 1)
                   ELSE inner_loop(world, order, entity,
                                   [collisions EXCEPT ![entity] = Append(@, ent_b)], j + 1)
              ELSE inner_loop(world, order, entity, collisions, j + 1)

\* the outer loop of detect_collisions, from position i of the query
RECURSIVE outer_loop(_, _, _, _)
outer_loop(world, order, collisions, i) ==
    IF i > Len(order) THEN collisions
    ELSE LET entity == order[i]
             c1 == IF entity \in DOMAIN collisions THEN collisions
                   ELSE collisions @@ (entity :> <<>>)
         IN  outer_loop(world, order, inner_loop(world, order, entity, c1, 1), i + 1)

\* CollisionEvent(a, b), with the frame it was written in
CollisionEvent(a, b, tick) == [a |-> a, b |-> b, tick |-> tick, read |-> FALSE]

\* the CollisionEvents pushed for one entry of the collisions map
RECURSIVE events_of(_, _, _, _)
events_of(ent, collided_with, i, tick) ==
    IF i > Len(collided_with) THEN EmptyBag
    ELSE SetToBag({CollisionEvent(ent, collided_with[i], tick)})
         (+) events_of(ent, collided_with, i + 1, tick)

\* events_to_send over the entries `keys` of the collisions map
RECURSIVE events_to_send(_, _, _)
events_to_send(collisions, keys, tick) ==
    IF keys = {} THEN EmptyBag
    ELSE LET ent == CHOOSE k \in keys : TRUE
         IN  events_of(ent, collisions[ent], 1, tick)
             (+) events_to_send(collisions, keys \ {ent}, tick)

\* the batch detect_collisions writes when the query yields `order`
detect_collisions_batch(world, order, tick) ==
    LET collisions == outer_loop(world, order, <<>>, 1)
    IN  events_to_send(collisions, DOMAIN collisions, tick)

----------------------------------------------------------------------------
(* main.rs: timers and collision rules *)

\* Stopwatch::tick(delta)
stopwatch_tick(elapsed, d) == elapsed + d

\* Timer::tick(delta) of a repeating timer of period RoidPeriod
timer_tick(t, d) ==
    LET e == stopwatch_tick(t.elapsed, d) IN
    IF e >= RoidPeriod
    THEN [ elapsed |-> e % RoidPeriod, finished |-> TRUE,
           times_finished_this_tick |-> e \div RoidPeriod ]
    ELSE [ elapsed |-> e, finished |-> FALSE, times_finished_this_tick |-> 0 ]

\* GameStats::default()
default_game_stats ==
    [ score |-> u32_of(0), stopwatch |-> 0,
      roid_timer |-> [elapsed |-> 0, finished |-> FALSE, times_finished_this_tick |-> 0],
      roid_chance |-> DefaultRoidChance ]

\* Timer::just_finished()
just_finished(t) == t.times_finished_this_tick > 0

\* (faulty variant of roll_spawns: val <= roid_chance)
roll_spawns_inclusive(val, roid_chance) == val <= roid_chance

\* val < game_stats.roid_chance
roll_spawns(val, roid_chance) == val < roid_chance

\* destroyed_roid after the two laser/asteroid tests of one collision
destroyed_roid(world, c) ==
    \/ is_laser(world, c.a) /\ is_asteroid(world, c.b)
    \/ is_laser(world, c.b) /\ is_asteroid(world, c.a)

\* (faulty variant of ship_hit_roid: the ship is looked for in the first position only)
ship_first_hit_roid(world, ship, c) ==
    /\ c.a = ship
    /\ (is_asteroid(world, c.b) \/ is_asteroid(world, c.a))

\* (faulty variant of ship_hit_roid: the pair is not required to hold the ship)
roid_hit_any(world, ship, c) == is_asteroid(world, c.b) \/ is_asteroid(world, c.a)

\* "Check if player ship collided with asteroid"
ship_hit_roid(world, ship, c) ==
    /\ (c.a = ship \/ c.b = ship)
    /\ (is_asteroid(world, c.b) \/ is_asteroid(world, c.a))

\* the commands no system has queued yet
NoCmds == [ despawn |-> {}, setup_scene |-> 0, spawn_asteroid |-> <<>>, spawn_laser_shot |-> <<>> ]

\* the body of handle_collisions' loop for one collision, on the state st of
\* the run: the score, the queued commands and whether the run has panicked.
\* game_stats.score += 10 is the `+=` of a u32: where the sum is 2^32 or more
\* a build without overflow checks stores the sum modulo 2^32, and a build
\* with overflow checks panics, the score as it was and the try_despawn
\* commands of the pair queued
handle_one(world, ship, c, st, overflow_checks) ==
    IF destroyed_roid(world, c)
    THEN [ st EXCEPT !.cmds.despawn = @ \cup {c.a, c.b},
                     !.score = IF overflow_checks /\ overflows(@, ScorePerRoid)
                               THEN @ ELSE wrapping_add(@, ScorePerRoid),
                     !.panicked = overflow_checks /\ overflows(st.score, ScorePerRoid) ]
    ELSE IF ship_hit_roid(world, ship, c)
    THEN [ st EXCEPT !.cmds.despawn = @ \cup cleanup_ents(world),
                     !.cmds.setup_scene = @ + 1 ]
    ELSE st

\* the messages MessageReader::read yields: those its cursor is not past
unread(msgs) == { m \in BagToSet(msgs) : ~m.read }

\* the buffer once the reader's cursor is past the messages `seen`
read_past(msgs, seen) ==
    LET mark(m) == IF m \in seen THEN [m EXCEPT !.read = TRUE] ELSE m
        n(m) == IF BagIn(m, msgs) THEN msgs[m] ELSE 0
    IN  [ r \in { mark(m) : m \in BagToSet(msgs) } |->
            (IF r \in seen THEN 0 ELSE n(r))
            + (IF r.read /\ [r EXCEPT !.read = FALSE] \in seen
               THEN n([r EXCEPT !.read = FALSE]) ELSE 0) ]

\* whether `order` can be the order of the messages in the buffer: the batch
\* of an earlier frame comes first; a batch of detect_collisions holds the
\* events of one entry of its collisions map together, and in every entry
\* the entities are in the order the query yielded them
buffer_order(order) ==
    \A i, k \in 1 .. Len(order) :
        i < k =>
          /\ order[i].tick <= order[k].tick
          /\ order[i].tick = order[k].tick /\ order[i].a = order[k].a
               => \A j \in i .. k : order[j].a = order[i].a
          /\ \A i2, k2 \in 1 .. Len(order) :
                /\ i2 < k2
                /\ order[i].tick = order[k].tick /\ order[i].a = order[k].a
                /\ order[i2].tick = order[i].tick
                /\ order[i2].tick = order[k2].tick /\ order[i2].a = order[k2].a
                => ~(order[i].b = order[k2].b /\ order[k].b = order[i2].b)

\* one order of the messages S
RECURSIVE some_order(_)
some_order(S) ==
    IF S = {} THEN <<>>
    ELSE << CHOOSE m \in S : TRUE >> \o some_order(S \ { CHOOSE m \in S : TRUE })

\* whether an addition of the loop over the messages S can reach 2^32
can_overflow(world, S, score) ==
    overflows(score, ScorePerRoid * Cardinality({ c \in S : destroyed_roid(world, c) }))

\* the orders in which collisions.read() can yield the unread messages S.
\* The loop body adds to the score and to the command queues only, so where
\* no addition overflows the order does not change what the loop leaves,
\* and one order stands for all
read_orders(world, S, score) ==
    IF can_overflow(world, S, score)
    THEN { order \in Orders(S) : buffer_order(order) }
    ELSE { some_order(S) }

\* for collision in collisions.read() { ... } from the i-th message of
\* `order` on; a panic ends the loop, the cursor past the message it was on
RECURSIVE handle_loop(_, _, _, _, _, _)
handle_loop(world, ship, order, i, st, overflow_checks) ==
    IF i > Len(order) \/ st.panicked THEN st
    ELSE handle_loop(world, ship, order, i + 1,
                     handle_one(world, ship, order[i],
                                [st EXCEPT !.seen = @ \cup {order[i]}], overflow_checks),
                     overflow_checks)

----------------------------------------------------------------------------
(* The Update systems.  Update orders none of them against another, so in   *)
(* each frame they run one at a time in any order.                          *)

\* a system that has not run in this frame runs; none runs once the program
\* has ended
Run(system) == ~panicked /\ system \notin ran /\ ran' = ran \cup {system}

apply_velocity ==
    /\ Run("apply_velocity")
    /\ ents' = apply_velocity_world(ents, dt)
    /\ UNCHANGED <<frame, dt, pressed, just_pressed, nextId, game_stats, messages, cmds, panicked>>

detect_collisions ==
    /\ Run("detect_collisions")
    /\ \E batch \in { detect_collisions_batch(ents, order, frame) :
                        order \in Orders(physical(ents)) } :
          messages' = messages (+) batch
    /\ UNCHANGED <<frame, dt, pressed, just_pressed, ents, nextId, game_stats, cmds, panicked>>

game_tick ==
    /\ Run("game_tick")
    /\ LET timer == timer_tick(game_stats.roid_timer, dt)
           stats == [ game_stats EXCEPT !.roid_timer = timer,
                                        !.stopwatch = stopwatch_tick(@, dt) ]
       IN  /\ game_stats' = stats
           /\ IF just_finished(timer)
              THEN \E val \in Rolls :
                      IF roll_spawns(val, stats.roid_chance)
                      THEN \E p \in RoidSpawns :
                              cmds' = [cmds EXCEPT !.spawn_asteroid = Append(@, p)]
                      ELSE cmds' = cmds
              ELSE cmds' = cmds
    /\ UNCHANGED <<frame, dt, pressed, just_pressed, ents, nextId, messages, panicked>>

control_ship ==
    /\ Run("control_ship")
    /\ IF single_ship(ents)
       THEN LET id        == the_ship(ents)
                ship      == ents[id]
                euler_rot == to_euler_z(ship.rotation)
                forward   == Forward(euler_rot, LinearAccel)
                new_vel   == << f32_mul(forward[1], delta_secs(dt)),
                                f32_mul(forward[2], delta_secs(dt)) >>
                linear    == IF "KeyW" \in pressed
                             THEN << f32_add(ship.linear[1], new_vel[1]),
                                     f32_add(ship.linear[2], new_vel[2]) >>
                             ELSE ship.linear
                ang_r     == IF "KeyD" \in pressed
                             THEN f32_sub(ship.angular, f32_mul(delta_secs(dt), AngularAccel))
                             ELSE ship.angular
                ang_l     == IF "KeyA" \in pressed
                             THEN f32_add(ang_r, f32_mul(delta_secs(dt), AngularAccel))
                             ELSE ang_r
            IN  /\ ents' = [ents EXCEPT ![id].linear = linear, ![id].angular = ang_l]
                /\ IF "Space" \in just_pressed
                   THEN cmds' = [cmds EXCEPT !.spawn_laser_shot =
                                    Append(@, [ loc |-> ship.translation,
                                                forward |-> euler_rot,
                                                init_vel |-> linear ])]
                   ELSE cmds' = cmds
       ELSE UNCHANGED <<ents, cmds>>
    /\ UNCHANGED <<frame, dt, pressed, just_pressed, nextId, game_stats, messages, panicked>>

\* what a run of handle_collisions leaves
handle_collisions_leaves(st) ==
    /\ game_stats' = [game_stats EXCEPT !.score = st.score]
    /\ cmds' = st.cmds
    /\ messages' = read_past(messages, st.seen)
    /\ panicked' = st.panicked

\* the run is of the build with overflow checks or of the build without,
\* and reads the unread messages in the order the buffer holds them
handle_collisions ==
    /\ Run("handle_collisions")
    /\ IF single_ship(ents)
       THEN \E overflow_checks \in BOOLEAN :
              \E order \in read_orders(ents, unread(messages), game_stats.score) :
                 handle_collisions_leaves(
                    handle_loop(ents, the_ship(ents), order, 1,
                                [ score |-> game_stats.score, cmds |-> cmds,
                                  panicked |-> FALSE, seen |-> {} ],
                                overflow_checks))
       ELSE UNCHANGED <<game_stats, cmds, messages, panicked>>
    /\ UNCHANGED <<frame, dt, pressed, just_pressed, ents, nextId>>

----------------------------------------------------------------------------
(* The frame boundary *)

\* the bundles this frame's queued systems spawn, in spawn order
RECURSIVE Repeat(_, _)
Repeat(s, n) == IF n = 0 THEN <<>> ELSE s \o Repeat(s, n - 1)

spawned(q) ==
    [ i \in 1 .. Len(q.spawn_asteroid) |-> spawn_asteroid(q.spawn_asteroid[i]) ]
    \o [ i \in 1 .. Len(q.spawn_laser_shot) |-> spawn_laser_shot(q.spawn_laser_shot[i]) ]
    \o Repeat(setup_scene, q.setup_scene)

\* the world once the queued commands are applied: try_despawn of every
\* queued entity, a fresh entity for every queued spawn
apply_commands(world, q, first) ==
    LET keep == DOMAIN world \ q.despawn
        new  == spawned(q)
    IN  [ e \in keep \cup (first .. first + Len(new) - 1) |->
            IF e \in keep THEN world[e] ELSE new[e - first + 1] ]

\* the messages a later read can still yield: Messages::update drops the
\* messages written before the frame that ends, and the reader's cursor
\* never returns to a message it is past
retained(msgs, tick) ==
    LET kept == { m \in BagToSet(msgs) : m.tick = tick /\ ~m.read }
    IN  [ m \in kept |-> msgs[m] ]

\* end of Update (the queued commands are applied), then First and PreUpdate
\* of the next frame (time, messages and input are updated)
next_frame ==
    /\ ~panicked
    /\ ran = Systems
    /\ frame < MaxFrames
    /\ frame' = frame + 1
    /\ ran' = {}
    /\ ents' = apply_commands(ents, cmds, nextId)
    /\ nextId' = nextId + Len(spawned(cmds))
    /\ cmds' = NoCmds
    /\ messages' = retained(messages, frame)
    /\ \E d \in Deltas : dt' = d
    /\ \E k \in KeySets : /\ pressed' = k
                          /\ just_pressed' = k \ pressed
    /\ UNCHANGED <<game_stats, panicked>>

----------------------------------------------------------------------------
(* The game: startup has run load_assets and setup_scene *)

Init ==
    /\ frame = 1
    /\ dt \in Deltas
    /\ pressed \in KeySets
    /\ just_pressed = pressed
    /\ ran = {}
    /\ ents = apply_commands(<<>>, [NoCmds EXCEPT !.setup_scene = 1], 1)
    /\ nextId = 1 + Len(setup_scene)
    /\ game_stats = default_game_stats
    /\ messages = EmptyBag
    /\ cmds = NoCmds
    /\ panicked = FALSE

Next ==
    \/ apply_velocity
    \/ detect_collisions
    \/ game_tick
    \/ control_ship
    \/ handle_collisions
    \/ next_frame

Spec == Init /\ [][Next]_vars

----------------------------------------------------------------------------
(* The game well into a long session: 429,496,729 asteroids have been shot, *)
(* so the score is 4294967290, six below 2^32, and the scene has just been  *)
(* set up; the last three frames of the session are explored.               *)

LongGameInit ==
    /\ frame = MaxFrames - 2
    /\ dt \in Deltas
    /\ pressed \in KeySets
    /\ just_pressed = pressed
    /\ ran = {}
    /\ ents = apply_commands(<<>>, [NoCmds EXCEPT !.setup_scene = 1], 1)
    /\ nextId = 1 + Len(setup_scene)
    /\ game_stats = [default_game_stats EXCEPT !.score = << Half32 - 1, Half32 - 6 >>]
    /\ messages = EmptyBag
    /\ cmds = NoCmds
    /\ panicked = FALSE

SpecLongGame == LongGameInit /\ [][Next]_vars

----------------------------------------------------------------------------
(* detect_collisions on its own: any world of up to MaxBodies collidable    *)
(* entities (asteroids of radius 50 and laser shots of radius 15) at the    *)
(* positions below, every other system of the frame having run.             *)

\* the f32 next below 15.0 and the f32 next below 50.0
Below15 == f32_of(15728639, -20)
Below50 == f32_of(13107199, -18)

\* (0, 0), (0, 15), (0, 50) and (40, 40) px, which lie 15, 35, 41.2, 47.2,
\* 50 and 56.6 px apart, and the points one f32 step below (0, 15) and
\* (0, 50), which lie 15 - 2^-20 and 50 - 2^-18 px from (0, 0)
DetectPositions ==
    { Vec2_ZERO, << Zero, f32_of(15, 0) >>, << Zero, Below15 >>,
      << Zero, f32_of(50, 0) >>, << Zero, Below50 >>, << f32_of(40, 0), f32_of(40, 0) >> }

DetectBodies ==
    { spawn_asteroid([pos |-> p, rotation |-> Zero, speed |-> Zero, angvel |-> Zero]) :
        p \in DetectPositions }
    \cup { spawn_laser_shot([loc |-> p, forward |-> Zero, init_vel |-> Vec2_ZERO]) :
             p \in DetectPositions }

DetectInit ==
    /\ frame = 1
    /\ dt = 0
    /\ pressed = {}
    /\ just_pressed = {}
    /\ ran = Systems \ {"detect_collisions"}
    /\ \E n \in 1 .. MaxBodies : ents \in [1 .. n -> DetectBodies] /\ nextId = n + 1
    /\ game_stats = default_game_stats
    /\ messages = EmptyBag
    /\ cmds = NoCmds
    /\ panicked = FALSE

SpecDetect == DetectInit /\ [][detect_collisions]_vars

----------------------------------------------------------------------------
(* detect_collisions on its own, in worlds that also hold entities without  *)
(* a CircleCollider: any world of up to MaxBodies entities, each an         *)
(* asteroid, a laser shot or a camera at one of the positions above.        *)

\* the camera of setup_scene, moved to each of the positions
DetectCameras == { [camera_bundle EXCEPT !.translation = p] : p \in DetectPositions }

CameraInit ==
    /\ frame = 1
    /\ dt = 0
    /\ pressed = {}
    /\ just_pressed = {}
    /\ ran = Systems \ {"detect_collisions"}
    /\ \E n \in 1 .. MaxBodies :
          ents \in [1 .. n -> DetectBodies \cup DetectCameras] /\ nextId = n + 1
    /\ game_stats = default_game_stats
    /\ messages = EmptyBag
    /\ cmds = NoCmds
    /\ panicked = FALSE

SpecCamera == CameraInit /\ [][detect_collisions]_vars

----------------------------------------------------------------------------
(* apply_velocity on its own: one body with any of the velocities, drag     *)
(* coefficients and poses below, ticked with a delta of 0 to 250 ms, every   *)
(* other system of the frame having run.                                    *)

IntegrateDeltas == {0, 1, 2, 3, 4}

\* the origin; a point 524288 px out, where f32 values are 1/16 px apart;
\* a point whose coordinates use all 24 bits (about (1/3, -102.4) px)
IntegratePositions ==
    { Vec2_ZERO,
      << f32_of(524288, 0), f32_of(-20, 0) >>,
      << f32_of(11184811, -25), f32_of(-13421773, -17) >> }

\* linear velocities in px/s: none; (0.25, -0.75); (-400, 120); one of 24
\* significant bits (8 + 2^-20) with a subnormal one (-5 * 2^-149); the
\* smallest normal f32 (2^-126) with the smallest subnormal one (2^-149)
IntegrateLinear ==
    { Vec2_ZERO,
      << f32_of(1, -2), f32_of(-3, -2) >>,
      << f32_of(-400, 0), f32_of(120, 0) >>,
      << f32_of(8388609, -20), f32_of(-5, MinExp) >>,
      << f32_of(1, -126), f32_of(1, MinExp) >> }

\* per-axis linear drag: none; the default 0.5; (2, 5); (2^-23, 3 * 2^-24),
\* which times 250 ms are 2^-25 and 1.5 * 2^-25; 2^-22, which times 250 ms
\* is 2^-24
IntegrateLinearDrags ==
    { Vec2_ZERO,
      << DefaultDrag, DefaultDrag >>,
      << f32_of(2, 0), f32_of(5, 0) >>,
      << f32_of(1, -23), f32_of(3, -24) >>,
      << f32_of(1, -22), f32_of(1, -22) >> }

\* angular velocities in rad/s: none, 1.5, -(3 + 2^-22)
IntegrateAngular == { Zero, f32_of(3, -1), f32_of(-12582913, -22) }

IntegrateAngularDrags == { Zero, DefaultDrag, f32_of(5, 0) }

\* the rotation of a fresh Transform, and of one turned by 1 rad
IntegrateRotations == { IDENTITY, << One >> }

IntegrateBodies ==
    { [ship_bundle EXCEPT !.translation = p, !.rotation = r, !.linear = l,
                          !.linear_drag = ld, !.angular = a, !.angular_drag = ad] :
        p \in IntegratePositions, r \in IntegrateRotations, l \in IntegrateLinear,
        ld \in IntegrateLinearDrags, a \in IntegrateAngular, ad \in IntegrateAngularDrags }

IntegrateInit ==
    /\ frame = 1
    /\ dt \in IntegrateDeltas
    /\ pressed = {}
    /\ just_pressed = {}
    /\ ran = Systems \ {"apply_velocity"}
    /\ ents \in [{1} -> IntegrateBodies]
    /\ nextId = 2
    /\ game_stats = default_game_stats
    /\ messages = EmptyBag
    /\ cmds = NoCmds
    /\ panicked = FALSE

SpecIntegrate == IntegrateInit /\ [][apply_velocity \/ next_frame]_vars

----------------------------------------------------------------------------
(* game_tick on its own: a game configured with roid_chance 0 or 100, the   *)
(* timer anywhere in its period, every other system of the frame having run *)

RoidChances == {0, 100}

RoidDeltas == {0, 2, 4}

RoidInit ==
    /\ frame = 1
    /\ dt \in RoidDeltas
    /\ pressed = {}
    /\ just_pressed = {}
    /\ ran = Systems \ {"game_tick"}
    /\ ents = apply_commands(<<>>, [NoCmds EXCEPT !.setup_scene = 1], 1)
    /\ nextId = 1 + Len(setup_scene)
    /\ \E c \in RoidChances, e \in 0 .. RoidPeriod - 1 :
          game_stats = [default_game_stats EXCEPT !.roid_chance = c, !.roid_timer.elapsed = e]
    /\ messages = EmptyBag
    /\ cmds = NoCmds
    /\ panicked = FALSE

SpecRoid == RoidInit /\ [][game_tick \/ next_frame]_vars


----------------------------------------------------------------------------
(* Properties *)

\* `system` runs in this step
Runs(system) == system \notin ran /\ system \in ran'

\* this step ends the frame: the queued commands are applied
FrameEnds == frame' = frame + 1

\* handle_collisions runs in this step and reads its messages
Handles == Runs("handle_collisions") /\ Cardinality(ships(ents)) = 1

\* the entity is alive and carries the tag
Tagged(e, tag) == e \in DOMAIN ents /\ ents[e].tag = tag

\* one entity of the pair is a live laser shot, the other a live asteroid
LaserRoidPair(m) ==
    \/ Tagged(m.a, "LaserShot") /\ Tagged(m.b, "Asteroid")
    \/ Tagged(m.a, "Asteroid") /\ Tagged(m.b, "LaserShot")

\* one entity of the pair is the player ship, the other a live asteroid
ShipRoidPair(m) ==
    \/ Tagged(m.a, "PlayerShip") /\ Tagged(m.b, "Asteroid")
    \/ Tagged(m.a, "Asteroid") /\ Tagged(m.b, "PlayerShip")

\* the pairs a run of handle_collisions is delivered in this state
Delivered == { m \in BagToSet(messages) : ~m.read }

\* how many messages the set S of buffered pairs stands for, each counted
\* as often as it was written
Count(S) == BagCardinality([ m \in S |-> messages[m] ])

\* the entities of kind `tag` that this step creates
Created(tag) == { e \in DOMAIN ents' \ DOMAIN ents : ents'[e].tag = tag }

\* the score s plus n, not cut to 32 bits: where the sum is 2^32 or more
\* the high half is Half32 or more, which the half of no u32 is
Plus(s, n) == << s[1] + ((s[2] + n) \div Half32), (s[2] + n) % Half32 >>

\* the score a is at least the score b
AtLeast(a, b) == a[1] > b[1] \/ (a[1] = b[1] /\ a[2] >= b[2])

\* the score s is a multiple of 10
MultipleOfTen(s) == (((s[1] % ScorePerRoid) * (Half32 % ScorePerRoid)) + s[2]) % ScorePerRoid = 0

\* C1 (as claimed): every laser/asteroid pair delivered to handle_collisions,
\* in either position, scores exactly 10 and queues the despawn of both
\* entities, the run queues no more scene resets than it was delivered other
\* pairs, and the entities queued for despawn are gone once the frame's
\* commands are applied.
C1_LaserHitScoresAndDespawns ==
    [][ /\ Handles =>
            /\ game_stats'.score
                 = Plus(game_stats.score,
                        ScorePerRoid * Count({ m \in Delivered : LaserRoidPair(m) }))
            /\ \A m \in Delivered : LaserRoidPair(m) => {m.a, m.b} \subseteq cmds'.despawn
            /\ cmds'.setup_scene - cmds.setup_scene
                 <= Count({ m \in Delivered : ~LaserRoidPair(m) })
        /\ FrameEnds => \A e \in cmds.despawn : e \notin DOMAIN ents'
      ]_vars

\* C2: a ship/asteroid pair delivered to handle_collisions, in either
\* position, queues the despawn of every GameCleanup entity and a run of
\* setup_scene; once the frame's commands are applied those entities are
\* gone and a PlayerShip that did not exist before exists.
C2_ShipHitResetsScene ==
    [][ /\ (Handles /\ \E m \in Delivered : ShipRoidPair(m)) =>
            /\ { e \in DOMAIN ents : ents[e].cleanup } \subseteq cmds'.despawn
            /\ cmds'.setup_scene > cmds.setup_scene
        /\ (FrameEnds /\ cmds.setup_scene > 0) =>
            /\ \A e \in cmds.despawn : e \notin DOMAIN ents'
            /\ Created("PlayerShip") # {}
            /\ \A e \in DOMAIN ents : ents[e].tag = "PlayerShip" => e \notin DOMAIN ents'
      ]_vars

\* C2 witness: a scene reset has been applied: the ship and the camera of
\* startup are gone and a later ship exists
C2_Witness ==
    /\ ran = {}
    /\ DOMAIN ents \cap (1 .. Len(setup_scene)) = {}
    /\ \E e \in DOMAIN ents : ents[e].tag = "PlayerShip"

\* C3: one run of detect_collisions writes no ordered pair twice and never
\* both (A, B) and (B, A).
C3_NoPairTwice ==
    "detect_collisions" \in ran =>
        \A m \in BagToSet(messages) :
            /\ messages[m] = 1
            /\ m.a # m.b => [m EXCEPT !.a = m.b, !.b = m.a] \notin BagToSet(messages)

\* The distances of the properties are those of plane geometry, computed
\* without rounding: a coordinate of at least 2^-20 px steps and below
\* 128 px is the integer Fixed of its 2^-20 px, and a squared distance is
\* the pair of limbs of square.

\* the coordinate x in 2^-20 px
Fixed(x) == IF x[1] = 0 THEN 0 ELSE x[1] * 2^(x[2] + 20)

\* the squared distance of two entities
Dist2(e1, e2) ==
    LET x   == square(Abs(Fixed(ents[e1].translation[1]) - Fixed(ents[e2].translation[1])))
        y   == square(Abs(Fixed(ents[e1].translation[2]) - Fixed(ents[e2].translation[2])))
        low == x[2] + y[2]
    IN  << x[1] + y[1] + (low \div Limb), low % Limb >>

\* the squared distance d2 is below the square of the length r
Closer(d2, r) ==
    LET r2 == square(Fixed(r))
    IN  d2[1] < r2[1] \/ (d2[1] = r2[1] /\ d2[2] < r2[2])

\* e2 lies within e1's radius
Within(e1, e2) == Closer(Dist2(e1, e2), ents[e1].radius)

\* C3 witness: a run over two entities each within the other's radius, which
\* wrote their pair
C3_Witness ==
    /\ "detect_collisions" \in ran
    /\ \E m \in BagToSet(messages) : m.a # m.b /\ Within(m.a, m.b) /\ Within(m.b, m.a)

\* C4: in a world of exactly two collidable entities one run of
\* detect_collisions writes no pair when neither lies within the other's
\* radius and exactly one pair when one does, or both do.
C4_TwoBodies ==
    ("detect_collisions" \in ran /\ DOMAIN ents = {1, 2}) =>
        BagCardinality(messages) = IF Within(1, 2) \/ Within(2, 1) THEN 1 ELSE 0

\* C4 witness: two entities of different radii, the distance below one
\* radius only, and the one pair written
C4_Witness ==
    /\ "detect_collisions" \in ran
    /\ DOMAIN ents = {1, 2}
    /\ Within(1, 2) /\ ~Within(2, 1)
    /\ BagCardinality(messages) = 1

\* C5: no CollisionEvent pairs an entity with itself.
C5_NoSelfPair ==
    \A m \in BagToSet(messages) : m.a # m.b

\* C5 witness: a run over an entity that lies within its own radius, next to
\* another that it collides with
C5_Witness ==
    /\ "detect_collisions" \in ran
    /\ messages # EmptyBag
    /\ \A e \in DOMAIN ents : Within(e, e)

\* C6 (as claimed): in every frame apply_velocity has run before
\* detect_collisions reads a position.
C6_IntegrateBeforeDetect ==
    "detect_collisions" \in ran => "apply_velocity" \in ran

\* C7 (as claimed): handle_collisions is delivered only pairs written in the
\* running frame, and no pair is left unread when its frame ends.
C7_ConsumedInTick ==
    [][ /\ Handles => \A m \in Delivered : m.tick = frame
        /\ FrameEnds => Delivered = {}
      ]_vars

\* C8 (as claimed): the fire key going down in a frame makes control_ship
\* queue exactly one laser shot, a frame without that edge none; the frame's
\* end spawns one LaserShot per queued shot, and the edge is the key being
\* down in a frame after a frame in which it was up.
C8_OneShotPerPress ==
    [][ /\ Runs("control_ship") =>
            Len(cmds'.spawn_laser_shot) - Len(cmds.spawn_laser_shot)
              = IF "Space" \in just_pressed THEN 1 ELSE 0
        /\ FrameEnds =>
            /\ Cardinality(Created("LaserShot")) = Len(cmds.spawn_laser_shot)
            /\ "Space" \in just_pressed' <=> ("Space" \in pressed' /\ "Space" \notin pressed)
      ]_vars

\* the roid_timer fires in a run of game_tick in this state
TimerFires == game_stats.roid_timer.elapsed + dt >= RoidPeriod

\* C9: with roid_chance 100 a run of game_tick in which the timer fires
\* queues exactly one asteroid, with roid_chance 0 no run queues any, no run
\* queues one unless the timer fires, and the frame's end spawns one
\* Asteroid per queued one.
C9_RoidChanceExtremes ==
    [][ /\ Runs("game_tick") =>
            /\ (game_stats.roid_chance = 100 /\ TimerFires) =>
                  Len(cmds'.spawn_asteroid) = Len(cmds.spawn_asteroid) + 1
            /\ (game_stats.roid_chance = 0 \/ ~TimerFires) => cmds' = cmds
        /\ FrameEnds => Cardinality(Created("Asteroid")) = Len(cmds.spawn_asteroid)
      ]_vars

\* C9 witness: under roid_chance 100 the timer has fired and the asteroid
\* it queued has been spawned
C9_Witness ==
    /\ game_stats.roid_chance = 100
    /\ ran = {}
    /\ \E e \in DOMAIN ents : ents[e].tag = "Asteroid"

\* C10: a run of handle_collisions that is delivered no laser/asteroid and
\* no ship/asteroid pair leaves the score and the command queues as they
\* were, and a run delivered no ship/asteroid pair queues the despawn of no
\* entity outside its laser/asteroid pairs.
C10_OtherPairsIgnored ==
    [][ Handles =>
          /\ (\A m \in Delivered : ~LaserRoidPair(m) /\ ~ShipRoidPair(m)) =>
                /\ game_stats' = game_stats
                /\ cmds' = cmds
          /\ (\A m \in Delivered : ~ShipRoidPair(m)) =>
                cmds'.despawn \ cmds.despawn
                  \subseteq UNION { {m.a, m.b} : m \in { x \in Delivered : LaserRoidPair(x) } }
      ]_vars

\* C10 witness: handle_collisions has read, in one frame, a pair of two
\* asteroids and a pair of the ship and a laser shot, and has queued nothing
C10_Witness ==
    /\ "handle_collisions" \in ran
    /\ cmds.despawn = {} /\ cmds.setup_scene = 0
    /\ \E m \in BagToSet(messages) :
          m.read /\ Tagged(m.a, "Asteroid") /\ Tagged(m.b, "Asteroid")
    /\ \E m \in BagToSet(messages) :
          /\ m.read
          /\ Tagged(m.a, "PlayerShip") \/ Tagged(m.b, "PlayerShip")
          /\ Tagged(m.a, "LaserShot") \/ Tagged(m.b, "LaserShot")

\* C11: an entity without a CircleCollider is in neither position of any
\* pair detect_collisions writes, wherever it lies.
C11_NoColliderNoPair ==
    \A m \in BagToSet(messages) :
        /\ m.a \in DOMAIN ents /\ ents[m.a].has_collider
        /\ m.b \in DOMAIN ents /\ ents[m.b].has_collider

\* C11 witness: a run over a world where an entity without a collider lies
\* within the radius of an entity with one, and a pair was written
C11_Witness ==
    /\ "detect_collisions" \in ran
    /\ messages # EmptyBag
    /\ \E c, e \in DOMAIN ents :
          ~ents[c].has_collider /\ ents[e].has_collider /\ Within(e, c)

\* the live entities that carry the tag
TaggedEnts(tag) == { e \in DOMAIN ents : ents[e].tag = tag }

\* C12 (as claimed): once the commands of setup_scene are applied to the
\* empty world of startup, one PlayerShip, one camera and 10 Asteroids exist.
C12_SceneHasTenAsteroids ==
    (frame = 1 /\ ran = {}) =>
        /\ Cardinality(TaggedEnts("PlayerShip")) = 1
        /\ Cardinality(TaggedEnts("Camera2d")) = 1
        /\ Cardinality(TaggedEnts("Asteroid")) = 10

\* the entities apply_velocity's query matches
Movers == { e \in DOMAIN ents : ents[e].has_velocity }

\* the body's linear and angular velocity are zero
AtRest(b) == b.linear = Vec2_ZERO /\ b.angular = Zero

\* C13: a run of apply_velocity leaves every body whose linear and angular
\* velocity are zero as it was (position, orientation and velocity), for
\* every delta and every drag coefficient.
C13_ZeroVelocityStays ==
    [][ Runs("apply_velocity") =>
          \A e \in Movers :
              AtRest(ents[e]) => ents'[e] = ents[e]
      ]_vars

\* C13 witness: apply_velocity has run with a delta above zero on a body at
\* rest that has drag and lies away from the origin
C13_Witness ==
    /\ "apply_velocity" \in ran
    /\ dt > 0
    /\ \E e \in Movers :
          /\ AtRest(ents[e])
          /\ ents[e].linear_drag # Vec2_ZERO /\ ents[e].angular_drag # Zero
          /\ ents[e].translation # Vec2_ZERO

\* the sum of the deltas of ds
RECURSIVE SumOf(_)
SumOf(ds) == IF ds = <<>> THEN 0 ELSE Head(ds) + SumOf(Tail(ds))

\* the ways of splitting the elapsed time d into one, two or three ticks
SplitsOf(d) ==
    { ds \in UNION { [1 .. n -> IntegrateDeltas] : n \in 1 .. 3 } : SumOf(ds) = d }

\* the bodies without drag
DragFree == { e \in Movers : ents[e].linear_drag = Vec2_ZERO /\ ents[e].angular_drag = Zero }

\* the velocity is that of b
SameVelocity(c, b) == c.linear = b.linear /\ c.angular = b.angular

\* The positions of the properties are computed without rounding, as dyadic
\* numbers << n, u >>: the value n * 2^u for an odd n, and << 0, 0 >>.

\* how often 2 divides n > 0
RECURSIVE Twos(_)
Twos(n) == IF n % 2 = 1 THEN 0 ELSE 1 + Twos(n \div 2)

\* the dyadic number of the value n * 2^u
Dyadic(n, u) ==
    IF n = 0 THEN << 0, 0 >>
    ELSE << n \div 2^Twos(Abs(n)), u + Twos(Abs(n)) >>

\* a sum that takes more bits than an f32 has
TooLong == << 0, 1 >>

\* a + b for dyadic numbers of up to 26 bits; if the bits of the two lie
\* 30 binary places apart or more, the sum has more than 24 bits
Sum(a, b) ==
    IF a[1] = 0 THEN b
    ELSE IF b[1] = 0 THEN a
    ELSE LET u == IF a[2] <= b[2] THEN a[2] ELSE b[2]
         IN  IF bit_length(Abs(a[1])) + (a[2] - u) > 29
                \/ bit_length(Abs(b[1])) + (b[2] - u) > 29
             THEN TooLong
             ELSE Dyadic((a[1] * 2^(a[2] - u)) + (b[1] * 2^(b[2] - u)), u)

\* the f32 v times t sixteenths of a second
Times(v, t) == Dyadic(v[1] * t, v[2] - 4)

\* the dyadic number x is the value of an f32
IsF32(x) == x # TooLong /\ (x[1] = 0 \/ (Abs(x[1]) < Radix /\ x[2] >= MinExp))

\* coordinate i of the position that lies the velocity of b times t
\* sixteenths of a second away from the position of b
Advanced(b, i, t) == Sum(Dyadic(b.translation[i][1], b.translation[i][2]), Times(b.linear[i], t))

\* the body c is at the position that lies the velocity of b times t
\* sixteenths of a second away from the position of b
At(c, b, t) ==
    \A i \in 1 .. 2 : Dyadic(c.translation[i][1], c.translation[i][2]) = Advanced(b, i, t)

\* on the way of the body b through the ticks ds, t sixteenths of a second
\* having passed, every product velocity * dt and every position is the
\* value of an f32
RECURSIVE ExactOver(_, _, _)
ExactOver(b, ds, t) ==
    \/ ds = <<>>
    \/ /\ \A i \in 1 .. 2 : /\ IsF32(Times(b.linear[i], Head(ds)))
                              /\ IsF32(Advanced(b, i, t + Head(ds)))
       /\ ExactOver(b, Tail(ds), t + Head(ds))

\* C14 (as claimed): for a body without drag, a run of apply_velocity and
\* every sequence of runs whose deltas sum to the same elapsed time keep the
\* velocity and end at exactly position + velocity * elapsed time.
C14_LinearInSummedDt ==
    [][ Runs("apply_velocity") =>
          \A e \in DragFree :
              /\ SameVelocity(ents'[e], ents[e])
              /\ At(ents'[e], ents[e], dt)
              /\ \A ds \in SplitsOf(dt) :
                    /\ SameVelocity(integrate_seq(ents[e], ds), ents[e])
                    /\ At(integrate_seq(ents[e], ds), ents[e], dt)
      ]_vars

\* C14 (amended): for a body without drag, a run of apply_velocity and
\* every sequence of runs whose deltas sum to the same elapsed time keep the
\* velocity, and end at exactly position + velocity * elapsed time if every
\* product velocity * dt and every position on the way is the value of an
\* f32.
C14_LinearWhereExact ==
    [][ Runs("apply_velocity") =>
          \A e \in DragFree :
              /\ SameVelocity(ents'[e], ents[e])
              /\ ExactOver(ents[e], << dt >>, 0) => At(ents'[e], ents[e], dt)
              /\ \A ds \in SplitsOf(dt) :
                    /\ SameVelocity(integrate_seq(ents[e], ds), ents[e])
                    /\ ExactOver(ents[e], ds, 0) => At(integrate_seq(ents[e], ds), ents[e], dt)
      ]_vars

\* C14 witness: a body without drag that started 524288 px out, where the
\* f32 values are 1/16 px apart, with the velocity (0.25, -0.75) px/s has
\* been moved by 250 ms of apply_velocity, by exactly (1/16, -3/16) px
C14_Witness ==
    /\ "apply_velocity" \in ran
    /\ dt = 4
    /\ \E e \in DragFree :
          /\ ents[e].linear = << f32_of(1, -2), f32_of(-3, -2) >>
          /\ ents[e].translation = << f32_of(8388609, -4), f32_of(-323, -4) >>

\* the velocity components of a body (linear x, linear y, angular) and
\* the drag coefficient of each
VelAt(b, i) == IF i = 3 THEN b.angular ELSE b.linear[i]
DragAt(b, i) == IF i = 3 THEN b.angular_drag ELSE b.linear_drag[i]

\* |a|
Magnitude(a) == << Abs(a[1]), a[2] >>

\* a < b, for f32s that are not negative
Less(a, b) == a[2] < b[2] \/ (a[2] = b[2] /\ a[1] < b[1])

\* the f32s a and b are not of opposite signs
SameSide(a, b) == ~(a[1] < 0 /\ b[1] > 0) /\ ~(a[1] > 0 /\ b[1] < 0)

\* drag * dt of component i of the body, as the code computes it
DragDt(b, i) == f32_mul(DragAt(b, i), delta_secs(dt))

\* 0 < drag * dt < 1 for component i of the body
DragBelowOne(b, i) == Less(Zero, DragDt(b, i)) /\ Less(DragDt(b, i), One)

\* half the distance from 1.0 to the f32 next below it, 2^-25
HalfStepBelowOne == f32_of(1, -25)

\* the smallest normal f32, 2^-126
MinNormal == f32_of(1, -126)

\* C15 (as claimed): in a run of apply_velocity with 0 < drag * dt < 1 no
\* velocity component grows in magnitude or changes sign, and every
\* non-zero component strictly shrinks.
C15_DragShrinks ==
    [][ Runs("apply_velocity") =>
          \A e \in Movers : \A i \in 1 .. 3 :
              DragBelowOne(ents[e], i) =>
                  /\ SameSide(VelAt(ents'[e], i), VelAt(ents[e], i))
                  /\ ~Less(Magnitude(VelAt(ents[e], i)), Magnitude(VelAt(ents'[e], i)))
                  /\ VelAt(ents[e], i) # Zero =>
                        Less(Magnitude(VelAt(ents'[e], i)), Magnitude(VelAt(ents[e], i)))
      ]_vars

\* C15 (amended): in a run of apply_velocity with 0 < drag * dt < 1 no
\* velocity component grows in magnitude or changes sign; a component of
\* magnitude above 2^-126 strictly shrinks if drag * dt is above 2^-25; and
\* if drag * dt is at most 2^-25 every component keeps its value.
C15_DragShrinksAboveHalfStep ==
    [][ Runs("apply_velocity") =>
          \A e \in Movers : \A i \in 1 .. 3 :
              DragBelowOne(ents[e], i) =>
                  /\ SameSide(VelAt(ents'[e], i), VelAt(ents[e], i))
                  /\ ~Less(Magnitude(VelAt(ents[e], i)), Magnitude(VelAt(ents'[e], i)))
                  /\ (/\ Less(HalfStepBelowOne, DragDt(ents[e], i))
                      /\ Less(MinNormal, Magnitude(VelAt(ents[e], i)))) =>
                        Less(Magnitude(VelAt(ents'[e], i)), Magnitude(VelAt(ents[e], i)))
                  /\ ~Less(HalfStepBelowOne, DragDt(ents[e], i)) =>
                        VelAt(ents'[e], i) = VelAt(ents[e], i)
      ]_vars

\* C15 witness: apply_velocity has run for 250 ms on a body with the
\* default drag 0.5 and has brought its velocity (-400, 120) px/s down to
\* (-350, 105) px/s
C15_Witness ==
    /\ "apply_velocity" \in ran
    /\ dt = 4
    /\ \E e \in Movers :
          /\ ents[e].linear_drag = << DefaultDrag, DefaultDrag >>
          /\ ents[e].linear = << f32_of(-350, 0), f32_of(105, 0) >>

\* the run wrote the ordered pair (e1, e2)
Wrote(e1, e2) == \E m \in BagToSet(messages) : m.a = e1 /\ m.b = e2

\* the two entities are closer than the sum of their radii
WithinSum(e1, e2) ==
    LET sum == square(Fixed(ents[e1].radius) + Fixed(ents[e2].radius))
    IN  Dist2(e1, e2)[1] < sum[1] \/ (Dist2(e1, e2)[1] = sum[1] /\ Dist2(e1, e2)[2] < sum[2])

\* C16: the hit test of the ordered pair (A, B) is distance < radius(A):
\* every pair (A, B) written has B within A's radius, a B within A's radius
\* while A is not within B's gets (A, B) written, and two entities neither
\* of which is within the other's radius get no pair, also when they are
\* closer than the sum of their radii.
C16_FirstRadiusOnly ==
    "detect_collisions" \in ran =>
        /\ \A m \in BagToSet(messages) : Within(m.a, m.b)
        /\ \A e1, e2 \in DOMAIN ents :
              /\ (e1 # e2 /\ Within(e1, e2) /\ ~Within(e2, e1)) => Wrote(e1, e2)
              /\ (~Within(e1, e2) /\ ~Within(e2, e1)) => ~Wrote(e1, e2)

\* C16 witness: a run over a world with two entities at least each radius
\* apart but closer than the sum of the radii, and with one entity that is
\* within another's radius while that one is outside its own
C16_Witness ==
    /\ "detect_collisions" \in ran
    /\ \E e1, e2 \in DOMAIN ents :
          e1 # e2 /\ ~Within(e1, e2) /\ ~Within(e2, e1) /\ WithinSum(e1, e2)
    /\ \E e1, e2 \in DOMAIN ents : Within(e1, e2) /\ ~Within(e2, e1) /\ Wrote(e1, e2)

\* C17 (as claimed): in every state exactly one PlayerShip and exactly one
\* camera exist.
C17_OneShipOneCamera ==
    /\ Cardinality(TaggedEnts("PlayerShip")) = 1
    /\ Cardinality(TaggedEnts("Camera2d")) = 1

\* the asteroids that the pairs delivered to a run of handle_collisions
\* show hit by a laser shot
RoidsHit ==
    { e \in TaggedEnts("Asteroid") :
        \E m \in Delivered : LaserRoidPair(m) /\ e \in {m.a, m.b} }

\* C18 (as claimed): the score is 10 times the number of asteroids
\* despawned by a laser hit.  The score starts at 0 and an asteroid hit in a
\* run of handle_collisions is despawned when that frame ends, so this is:
\* every run adds 10 for each asteroid its pairs show hit, however many
\* pairs show it, and no other step changes the score.
C18_ScoredOncePerRoid ==
    [][ /\ Handles => game_stats'.score = Plus(game_stats.score, ScorePerRoid * Cardinality(RoidsHit))
        /\ ~Handles => game_stats'.score = game_stats.score
      ]_vars

\* the unordered pairs of a batch of CollisionEvents
Unordered(batch) == { {m.a, m.b} : m \in BagToSet(batch) }

\* the larger of the two radii
MaxRadius(e1, e2) ==
    IF Fixed(ents[e1].radius) >= Fixed(ents[e2].radius) THEN ents[e1].radius ELSE ents[e2].radius

\* C19: the unordered pairs one run of detect_collisions writes are the
\* same for every order in which the query yields the entities: {A, B} is
\* written, in one of its orders, exactly when A # B and their distance is
\* below the larger of the two radii.
C19_UnorderedPairsFixed ==
    /\ "detect_collisions" \in ran =>
          \A e1, e2 \in DOMAIN ents :
              e1 # e2 =>
                 ((Wrote(e1, e2) \/ Wrote(e2, e1))
                    <=> Closer(Dist2(e1, e2), MaxRadius(e1, e2)))
    /\ \A o1, o2 \in Orders(physical(ents)) :
          Unordered(detect_collisions_batch(ents, o1, frame))
            = Unordered(detect_collisions_batch(ents, o2, frame))

\* C19 witness: a run that wrote the pair of two entities with the higher
\* id first, which happens only when the query yields that entity first,
\* next to an entity that is within the radius of another but not the
\* other way round
C19_Witness ==
    /\ "detect_collisions" \in ran
    /\ \E m \in BagToSet(messages) : m.a > m.b /\ Within(m.a, m.b) /\ Within(m.b, m.a)
    /\ \E e1, e2 \in DOMAIN ents : Within(e1, e2) /\ ~Within(e2, e1)

\* C20 (as claimed): no step lowers the score, the score is always a
\* multiple of 10, only a run of handle_collisions that is delivered a
\* laser/asteroid pair changes it, and so neither a scene reset (the run
\* that queues it, the frame end that applies it) nor game_tick,
\* control_ship, apply_velocity or detect_collisions does.
C20_ScoreMonotone ==
    [][ /\ AtLeast(game_stats'.score, game_stats.score)
        /\ MultipleOfTen(game_stats.score) /\ MultipleOfTen(game_stats'.score)
        /\ ~Runs("handle_collisions") => game_stats'.score = game_stats.score
        /\ (Handles /\ \A m \in Delivered : ~LaserRoidPair(m)) =>
              game_stats'.score = game_stats.score
      ]_vars

====
